---- MODULE Spec2Model ----
(***************************************************************************)
(* RoadMigrate: the migration engine of src/src/roadmigrate/migrate.py.    *)
(*                                                                         *)
(* Python strings are modelled as sequences of character codes, so that    *)
(* the string comparisons of the code (version > target, sorted(keys))     *)
(* are the lexicographic comparison of Python and not a numeric one:       *)
(* the version "10" sorts before the version "2".                          *)
(***************************************************************************)
EXTENDS Integers, Sequences, FiniteSets, TLC

(* ---------------------------- bounds ----------------------------------- *)

\* rollback(steps) is called with steps in 0..MaxSteps
MaxSteps == 3

\* the threads that call the ledger concurrently are 1..NumThreads
NumThreads == 2

\* the payloads (SQL texts) are the strings of at most MaxSqlLen characters
MaxSqlLen == 2

\* at most MaxHooks callbacks are registered with add_hook
MaxHooks == 2

(* ------------------------- strings and lists --------------------------- *)

\* the empty string ""
EmptyStr == << >>

\* Python's None where a string is expected (not a string: -1 is no character)
None == << -1 >>

\* the version strings "1", "10", "2" (ascending as strings)
Versions == { <<1>>, <<1, 0>>, <<2>> }

\* the targets a caller passes: a version, or "" (below every version)
Targets == Versions \cup { EmptyStr }

\* Python's str < str: the first differing character decides, a proper
\* prefix is smaller
StrLess(a, b) ==
    \E i \in 1..(Len(a) + 1) :
        /\ \A j \in 1..(i - 1) : j <= Len(b) /\ a[j] = b[j]
        /\ \/ i > Len(a) /\ i <= Len(b)
           \/ i <= Len(a) /\ i <= Len(b) /\ a[i] < b[i]

StrLeq(a, b) == a = b \/ StrLess(a, b)

\* truthiness of an optional string: None and "" are both falsy
Truthy(s) == s # None /\ s # EmptyStr

Range(s) == { s[i] : i \in 1..Len(s) }

Reverse(s) == [ i \in 1..Len(s) |-> s[Len(s) + 1 - i] ]

Min(a, b) == IF a <= b THEN a ELSE b

\* list.remove(x): drops the first occurrence of x
RemoveFirst(s, x) ==
    LET k == CHOOSE i \in 1..Len(s) : s[i] = x /\ \A j \in 1..(i - 1) : s[j] # x
    IN  [ i \in 1..(Len(s) - 1) |-> IF i < k THEN s[i] ELSE s[i + 1] ]

\* sorted(keys): ascending by string comparison
RECURSIVE sorted(_)
sorted(S) ==
    IF S = {} THEN << >>
    ELSE LET m == CHOOSE x \in S : \A y \in S : StrLeq(x, y)
         IN  <<m>> \o sorted(S \ {m})

(* ------------------------------ state ---------------------------------- *)

VARIABLES
    migrations,   \* Migrator.migrations: version -> Migration (status, applied_at)
    applied,      \* MigrationStore.applied: the ledger, a list of versions
    last          \* the last call of the Migrator: its arguments, the ledger
                  \* before it, the results it returned, what it executed

VARIABLES
    pc,           \* per thread: where it stands in its call of the ledger
    lock,         \* MigrationStore._lock: TRUE while a thread holds it
    call,         \* per thread: the ledger call it is in (op, version)
    seen,         \* per thread: what its membership test of the list gave
    lastMut       \* per version: the last ledger call on it that returned

VARIABLES
    built         \* the Migration objects under construction, by name

VARIABLES
    hooks         \* Migrator.hooks: event -> the callbacks registered, in order

VARIABLES
    conc,         \* per thread: the Migrator call it is in and the call's locals
    execs         \* the forward bodies executed by concurrent calls, in order

mvars == << migrations, last >>
tvars == << pc, lock, call, seen, lastMut >>
cvars == << conc, execs >>
xvars == << hooks, cvars >>
vars == << migrations, applied, last, pc, lock, call, seen, lastMut, built,
           hooks, conc, execs >>

\* Migration(version, name): status PENDING, applied_at None
NewMigration == [ status |-> "pending", applied_at |-> FALSE ]

(* ------------------------- MigrationStore ------------------------------ *)

\* mark_applied without its membership test
mark_applied_always(ledger, version) == Append(ledger, version)

\* mark_applied with its membership test inverted
mark_applied_inverted(ledger, version) ==
    IF version \in Range(ledger) THEN Append(ledger, version) ELSE ledger

mark_applied(ledger, version) ==
    IF version \notin Range(ledger) THEN Append(ledger, version) ELSE ledger

\* mark_rolled_back with its membership test inverted
mark_rolled_back_inverted(ledger, version) ==
    IF version \notin Range(ledger) THEN RemoveFirst(ledger, version) ELSE ledger

mark_rolled_back(ledger, version) ==
    IF version \in Range(ledger) THEN RemoveFirst(ledger, version) ELSE ledger

is_applied(ledger, version) == version \in Range(ledger)

(* ------------------------- MigrationRunner ----------------------------- *)

\* failing: the versions whose forward (backward) body raises in this call;
\* the exception is caught and becomes a result with success = False
run_up(version, failing) ==
    [ version |-> version, success |-> version \notin failing, direction |-> "up" ]

run_down(version, failing) ==
    [ version |-> version, success |-> version \notin failing, direction |-> "down" ]

(* ----------------------------- Migrator -------------------------------- *)

\* pending() that forgets to leave out the applied versions
pending_ignoring_ledger(catalog, ledger) == sorted(DOMAIN catalog)

\* pending() that leaves out the migrations whose status is failed
pending_skipping_failed(catalog, ledger) ==
    sorted({ v \in DOMAIN catalog \ Range(ledger) : catalog[v].status # "failed" })

\* pending() iterating the catalog in descending order
pending_descending(catalog, ledger) ==
    Reverse(sorted(DOMAIN catalog \ Range(ledger)))

\* pending(): catalog versions not in the ledger, ascending
pending(catalog, ledger) == sorted(DOMAIN catalog \ Range(ledger))

\* applied(): the ledger mapped through the catalog, in ledger order
AppliedList(catalog, ledger) == SelectSeq(ledger, LAMBDA v : v \in DOMAIN catalog)

Event(ev, version) == [ ev |-> ev, version |-> version ]

\* the local state of one batch call
Batch(catalog, ledger) ==
    [ migrations |-> catalog, applied |-> ledger,
      results |-> << >>, trace |-> << >>, stop |-> FALSE ]

\* the loop of migrate() without the break after a failure
MigrateBody_NoBreak(st, version, target, failing) ==
    IF Truthy(target) /\ StrLess(target, version)
    THEN [ st EXCEPT !.stop = TRUE ]
    ELSE LET result == run_up(version, failing)
         IN  IF result.success
             THEN [ st EXCEPT !.results = Append(@, result),
                              !.trace = Append(@, Event("run_up", version)),
                              !.applied = mark_applied(@, version),
                              !.migrations[version] =
                                  [ status |-> "applied", applied_at |-> TRUE ] ]
             ELSE [ st EXCEPT !.results = Append(@, result),
                              !.trace = Append(@, Event("run_up", version)),
                              !.migrations[version].status = "failed" ]

\* one iteration of the loop of migrate()
MigrateBody(st, version, target, failing) ==
    IF Truthy(target) /\ StrLess(target, version)
    THEN [ st EXCEPT !.stop = TRUE ]
    ELSE LET result == run_up(version, failing)
         IN  IF result.success
             THEN [ st EXCEPT !.results = Append(@, result),
                              !.trace = Append(@, Event("run_up", version)),
                              !.applied = mark_applied(@, version),
                              !.migrations[version] =
                                  [ status |-> "applied", applied_at |-> TRUE ] ]
             ELSE [ st EXCEPT !.results = Append(@, result),
                              !.trace = Append(@, Event("run_up", version)),
                              !.migrations[version].status = "failed",
                              !.stop = TRUE ]

RECURSIVE MigrateLoop(_, _, _, _)
MigrateLoop(st, todo, target, failing) ==
    IF todo = << >> \/ st.stop THEN st
    ELSE MigrateLoop(MigrateBody(st, Head(todo), target, failing),
                     Tail(todo), target, failing)

\* the loop of rollback() without the break after a failure
RollbackBody_NoBreak(st, i, version, steps, failing) ==
    IF i >= steps
    THEN [ st EXCEPT !.stop = TRUE ]
    ELSE IF version \notin DOMAIN st.migrations
    THEN st
    ELSE LET result == run_down(version, failing)
         IN  IF result.success
             THEN [ st EXCEPT !.results = Append(@, result),
                              !.trace = Append(@, Event("run_down", version)),
                              !.applied = mark_rolled_back(@, version),
                              !.migrations[version].status = "rolled_back" ]
             ELSE [ st EXCEPT !.results = Append(@, result),
                              !.trace = Append(@, Event("run_down", version)),
                              !.migrations[version].status = "failed" ]

\* the loop of rollback() stopping one step late (i > steps)
RollbackBody_OffByOne(st, i, version, steps, failing) ==
    IF i > steps
    THEN [ st EXCEPT !.stop = TRUE ]
    ELSE IF version \notin DOMAIN st.migrations
    THEN st
    ELSE LET result == run_down(version, failing)
         IN  IF result.success
             THEN [ st EXCEPT !.results = Append(@, result),
                              !.trace = Append(@, Event("run_down", version)),
                              !.applied = mark_rolled_back(@, version),
                              !.migrations[version].status = "rolled_back" ]
             ELSE [ st EXCEPT !.results = Append(@, result),
                              !.trace = Append(@, Event("run_down", version)),
                              !.migrations[version].status = "failed",
                              !.stop = TRUE ]

\* one iteration of the loop of rollback(); i is the index of enumerate()
RollbackBody(st, i, version, steps, failing) ==
    IF i >= steps
    THEN [ st EXCEPT !.stop = TRUE ]
    ELSE IF version \notin DOMAIN st.migrations
    THEN st
    ELSE LET result == run_down(version, failing)
         IN  IF result.success
             THEN [ st EXCEPT !.results = Append(@, result),
                              !.trace = Append(@, Event("run_down", version)),
                              !.applied = mark_rolled_back(@, version),
                              !.migrations[version].status = "rolled_back" ]
             ELSE [ st EXCEPT !.results = Append(@, result),
                              !.trace = Append(@, Event("run_down", version)),
                              !.migrations[version].status = "failed",
                              !.stop = TRUE ]

RECURSIVE RollbackLoop(_, _, _, _, _)
RollbackLoop(st, todo, i, steps, failing) ==
    IF todo = << >> \/ st.stop THEN st
    ELSE RollbackLoop(RollbackBody(st, i, Head(todo), steps, failing),
                      Tail(todo), i + 1, steps, failing)

\* the loop of rollback_to() stopping only below the target (version < target)
RollbackToBody_Strict(st, version, target, failing) ==
    IF StrLess(version, target)
    THEN [ st EXCEPT !.stop = TRUE ]
    ELSE IF version \notin DOMAIN st.migrations
    THEN st
    ELSE LET result == run_down(version, failing)
         IN  IF result.success
             THEN [ st EXCEPT !.results = Append(@, result),
                              !.trace = Append(@, Event("run_down", version)),
                              !.applied = mark_rolled_back(@, version) ]
             ELSE [ st EXCEPT !.results = Append(@, result),
                              !.trace = Append(@, Event("run_down", version)) ]

\* one iteration of the loop of rollback_to()
RollbackToBody(st, version, target, failing) ==
    IF StrLeq(version, target)
    THEN [ st EXCEPT !.stop = TRUE ]
    ELSE IF version \notin DOMAIN st.migrations
    THEN st
    ELSE LET result == run_down(version, failing)
         IN  IF result.success
             THEN [ st EXCEPT !.results = Append(@, result),
                              !.trace = Append(@, Event("run_down", version)),
                              !.applied = mark_rolled_back(@, version) ]
             ELSE [ st EXCEPT !.results = Append(@, result),
                              !.trace = Append(@, Event("run_down", version)) ]

RECURSIVE RollbackToLoop(_, _, _, _)
RollbackToLoop(st, todo, target, failing) ==
    IF todo = << >> \/ st.stop THEN st
    ELSE RollbackToLoop(RollbackToBody(st, Head(todo), target, failing),
                        Tail(todo), target, failing)

\* the four events of Migrator.hooks
Events == { "before_migrate", "after_migrate", "before_rollback", "after_rollback" }

\* the callbacks registered so far; a callback is named by its registration number
NumHooks ==
    Len(hooks["before_migrate"]) + Len(hooks["after_migrate"])
        + Len(hooks["before_rollback"]) + Len(hooks["after_rollback"])

\* the callbacks registered for some of the events
HandlersOf(events) == UNION { Range(hooks[e]) : e \in events }

\* _emit(event, data) was called
Dispatch(event, data) == [ ev |-> event, data |-> data ]

\* handler(data) was called for the event, and raised or returned
HandlerCall(event, handler, raised) ==
    [ ev |-> "handler", event |-> event, handler |-> handler, raised |-> raised ]

\* _emit that passes an empty list for whatever data it is given
Emit_EmptyData(st, event, data, raising) ==
    [ st EXCEPT !.trace =
          @ \o << Dispatch(event, << >>) >>
            \o [ i \in 1..Len(hooks[event]) |->
                    HandlerCall(event, hooks[event][i], hooks[event][i] \in raising) ] ]

\* _emit without the try/except: the first callback that raises ends the
\* dispatch and the batch
Emit_Propagating(st, event, data, raising) ==
    LET hs == hooks[event]
        bad == { i \in 1..Len(hs) : hs[i] \in raising }
        n == IF bad = {} THEN Len(hs)
             ELSE CHOOSE i \in bad : \A j \in bad : i <= j
    IN  [ st EXCEPT !.trace =
              @ \o << Dispatch(event, data) >>
                \o [ i \in 1..n |-> HandlerCall(event, hs[i], hs[i] \in raising) ],
                    !.stop = (bad # {}) ]

\* _emit(event, data): every callback registered for the event is called with
\* data, in registration order; raising: the callbacks that raise in this
\* call (the exception is caught and logged)
Emit(st, event, data, raising) ==
    [ st EXCEPT !.trace =
          @ \o << Dispatch(event, data) >>
            \o [ i \in 1..Len(hooks[event]) |->
                    HandlerCall(event, hooks[event][i], hooks[event][i] \in raising) ] ]

\* what a finished call leaves in `last`
Call(op, target, steps, st) ==
    [ op |-> op, target |-> target, steps |-> steps, applied0 |-> applied,
      results |-> st.results, trace |-> st.trace ]

(* ------------------- Migration and MigrationBuilder -------------------- *)

\* the characters of a payload
SqlChars == {1, 2}

\* the payloads: the strings over SqlChars of at most MaxSqlLen characters
Sqls == UNION { [1..n -> SqlChars] : n \in 0..MaxSqlLen }

\* hashlib.md5(content).hexdigest()[:8], taken as injective on its input:
\* the digest of a content is that content behind a mark no payload starts with
Md5Hex(content) == <<0>> \o content

\* the checksum argument of Migration(...): absent (""), or a recorded digest
GivenChecksums == { EmptyStr, Md5Hex(<<1>>) }

\* the two Migration objects a comparison is about
Slots == { "m1", "m2" }

NoMigration ==
    [ origin |-> "none", up_sql |-> EmptyStr, down_sql |-> EmptyStr,
      checksum |-> EmptyStr ]

\* Migration.__post_init__: the checksum is derived only when none was given
PostInit(m) ==
    IF m.checksum = EmptyStr
    THEN [ m EXCEPT !.checksum = Md5Hex(m.up_sql \o m.down_sql) ]
    ELSE m

\* Migration(version, name, up_sql, down_sql, checksum)
NewObject(origin, up, down, checksum) ==
    PostInit([ origin |-> origin, up_sql |-> up, down_sql |-> down,
               checksum |-> checksum ])

BuiltInit == built = [ s \in Slots |-> NoMigration ]

\* Migration(version, name, up_sql=up, down_sql=down[, checksum=given])
Construct(slot, up, down, given) ==
    /\ built' = [ built EXCEPT ![slot] =
                    NewObject(IF given = EmptyStr THEN "direct" ELSE "given",
                              up, down, given) ]
    /\ UNCHANGED << migrations, applied, last, tvars, xvars >>

\* MigrationBuilder(version, name): Migration(version=version, name=name)
BuilderNew(slot) ==
    /\ built' = [ built EXCEPT ![slot] =
                    NewObject("builder", EmptyStr, EmptyStr, EmptyStr) ]
    /\ UNCHANGED << migrations, applied, last, tvars, xvars >>

\* MigrationBuilder.up(sql)
BuilderUp(slot, sql) ==
    /\ built[slot].origin = "builder"
    /\ built' = [ built EXCEPT ![slot].up_sql = sql ]
    /\ UNCHANGED << migrations, applied, last, tvars, xvars >>

\* MigrationBuilder.down(sql)
BuilderDown(slot, sql) ==
    /\ built[slot].origin = "builder"
    /\ built' = [ built EXCEPT ![slot].down_sql = sql ]
    /\ UNCHANGED << migrations, applied, last, tvars, xvars >>

DoConstruct ==
    \E s \in Slots, up \in Sqls, down \in Sqls, c \in GivenChecksums :
        Construct(s, up, down, c)
DoBuilderNew == \E s \in Slots : BuilderNew(s)
DoBuilderUp == \E s \in Slots, sql \in Sqls : BuilderUp(s, sql)
DoBuilderDown == \E s \in Slots, sql \in Sqls : BuilderDown(s, sql)

(* ---------------- MigrationStore called from several threads ----------- *)

Threads == 1..NumThreads

\* no summary returned by status() yet
NoSummary ==
    [ returned |-> FALSE, applied |-> << >>, pending |-> << >>,
      applied_count |-> 0, pending_count |-> 0 ]

\* a thread outside every call of the Migrator, holding the summary its last
\* status() returned
Returned(summary) ==
    [ op |-> "idle", pc |-> "none", todo |-> << >>, snap |-> << >>,
      summary |-> summary ]

Idle == Returned(NoSummary)

NoCall == [ op |-> "none", version |-> EmptyStr ]

ThreadsInit ==
    /\ pc = [ t \in Threads |-> "idle" ]
    /\ lock = FALSE
    /\ call = [ t \in Threads |-> NoCall ]
    /\ seen = [ t \in Threads |-> FALSE ]
    /\ lastMut = [ v \in Versions |-> "none" ]

\* a lock that never excludes
LockIgnored(held) == TRUE

\* `with self._lock`: the lock can be taken when no thread holds it
LockFree(held) == ~held

\* list.remove(x) of a list that may not hold x (then ValueError, list unchanged)
ListRemove(s, x) == IF x \in Range(s) THEN RemoveFirst(s, x) ELSE s

\* a thread enters mark_applied(version) or mark_rolled_back(version)
StoreCall(t, op, version) ==
    /\ pc[t] = "idle"
    /\ pc' = [ pc EXCEPT ![t] = "acquire" ]
    /\ call' = [ call EXCEPT ![t] = [ op |-> op, version |-> version ] ]
    /\ UNCHANGED << mvars, applied, lock, seen, lastMut, built, xvars >>

\* with self._lock: (entry)
Acquire(t) ==
    /\ pc[t] = "acquire"
    /\ LockFree(lock)
    /\ lock' = TRUE
    /\ pc' = [ pc EXCEPT ![t] = "test" ]
    /\ UNCHANGED << mvars, applied, call, seen, lastMut, built, xvars >>

\* if version [not] in self.applied:
Test(t) ==
    /\ pc[t] = "test"
    /\ seen' = [ seen EXCEPT ![t] = is_applied(applied, call[t].version) ]
    /\ pc' = [ pc EXCEPT ![t] = "update" ]
    /\ UNCHANGED << mvars, applied, lock, call, lastMut, built, xvars >>

\* self.applied.append(version) / self.applied.remove(version)
Update(t) ==
    /\ pc[t] = "update"
    /\ applied' =
           IF call[t].op = "mark_applied" /\ ~seen[t]
           THEN Append(applied, call[t].version)
           ELSE IF call[t].op = "mark_rolled_back" /\ seen[t]
           THEN ListRemove(applied, call[t].version)
           ELSE applied
    /\ pc' = [ pc EXCEPT ![t] = "release" ]
    /\ UNCHANGED << mvars, lock, call, seen, lastMut, built, xvars >>

\* with self._lock: (exit), and the call returns
Release(t) ==
    /\ pc[t] = "release"
    /\ lock' = FALSE
    /\ lastMut' = [ lastMut EXCEPT ![call[t].version] = call[t].op ]
    /\ pc' = [ pc EXCEPT ![t] = "idle" ]
    /\ call' = [ call EXCEPT ![t] = NoCall ]
    /\ seen' = [ seen EXCEPT ![t] = FALSE ]
    /\ UNCHANGED << mvars, applied, built, xvars >>

DoStoreCall ==
    \E t \in Threads, op \in {"mark_applied", "mark_rolled_back"}, v \in Versions :
        StoreCall(t, op, v)
DoAcquire == \E t \in Threads : Acquire(t)
DoTest == \E t \in Threads : Test(t)
DoUpdate == \E t \in Threads : Update(t)
DoRelease == \E t \in Threads : Release(t)

(* ------------------------------ Migrator calls ------------------------- *)

\* no thread is in a call of the Migrator
ConcInit ==
    /\ conc = [ t \in Threads |-> Idle ]
    /\ execs = << >>

\* Migrator.__init__: no callback registered
HooksInit == hooks = [ e \in Events |-> << >> ]

Init ==
    /\ migrations = << >>
    /\ applied = << >>
    /\ last = Call("init", None, 0, Batch(<< >>, << >>))
    /\ ThreadsInit
    /\ BuiltInit
    /\ HooksInit
    /\ ConcInit

\* register(migration): insert or overwrite by version
Register(version) ==
    /\ migrations' = [ v \in DOMAIN migrations \cup {version} |->
                         IF v = version THEN NewMigration ELSE migrations[v] ]
    /\ last' = Call("register", version, 0, Batch(migrations, applied))
    /\ UNCHANGED << applied, tvars, built, xvars >>

\* add_hook(event, handler): an unknown event is ignored
AddHook(event) ==
    /\ NumHooks < MaxHooks
    /\ hooks' = IF event \in Events
                THEN [ hooks EXCEPT ![event] = Append(@, NumHooks + 1) ]
                ELSE hooks
    /\ last' = Call("add_hook", None, 0, Batch(migrations, applied))
    /\ UNCHANGED << migrations, applied, tvars, built, cvars >>

\* migrate(target)
Migrate(target, failing, raising) ==
    LET before == Emit(Batch(migrations, applied), "before_migrate", None, raising)
        done == MigrateLoop(before, pending(migrations, applied), target, failing)
        st == Emit(done, "after_migrate", done.results, raising)
    IN  /\ migrations' = st.migrations
        /\ applied' = st.applied
        /\ last' = Call("migrate", target, 0, st)
        /\ UNCHANGED << tvars, built, xvars >>

\* rollback(steps)
Rollback(steps, failing, raising) ==
    LET before == Emit(Batch(migrations, applied), "before_rollback", None, raising)
        done == RollbackLoop(before, Reverse(applied), 0, steps, failing)
        st == Emit(done, "after_rollback", done.results, raising)
    IN  /\ migrations' = st.migrations
        /\ applied' = st.applied
        /\ last' = Call("rollback", None, steps, st)
        /\ UNCHANGED << tvars, built, xvars >>

\* rollback_to(target): no hooks
RollbackTo(target, failing) ==
    LET st == RollbackToLoop(Batch(migrations, applied), Reverse(applied),
                             target, failing)
    IN  /\ migrations' = st.migrations
        /\ applied' = st.applied
        /\ last' = Call("rollback_to", target, 0, st)
        /\ UNCHANGED << tvars, built, xvars >>

\* store.mark_applied(version), called by the owner of the store
StoreMarkApplied(version) ==
    /\ applied' = mark_applied(applied, version)
    /\ last' = Call("mark_applied", version, 0, Batch(migrations, applied))
    /\ UNCHANGED << migrations, tvars, built, xvars >>

\* store.mark_rolled_back(version), called by the owner of the store
StoreMarkRolledBack(version) ==
    /\ applied' = mark_rolled_back(applied, version)
    /\ last' = Call("mark_rolled_back", version, 0, Batch(migrations, applied))
    /\ UNCHANGED << migrations, tvars, built, xvars >>

\* the bodies a call can run: only these can raise in it
Runnable(direction) ==
    IF direction = "up" THEN DOMAIN migrations \ Range(applied)
    ELSE DOMAIN migrations \cap Range(applied)

DoRegister == \E v \in Versions : Register(v)
DoAddHook == \E e \in Events \cup {"unknown"} : AddHook(e)
DoMigrate ==
    \E t \in Targets \cup {None}, f \in SUBSET Runnable("up"),
       r \in SUBSET HandlersOf({"before_migrate", "after_migrate"}) : Migrate(t, f, r)
DoRollback ==
    \E n \in 0..MaxSteps, f \in SUBSET Runnable("down"),
       r \in SUBSET HandlersOf({"before_rollback", "after_rollback"}) : Rollback(n, f, r)
DoRollbackTo == \E t \in Targets, f \in SUBSET Runnable("down") : RollbackTo(t, f)
DoStoreMarkApplied == \E v \in Versions : StoreMarkApplied(v)
DoStoreMarkRolledBack == \E v \in Versions : StoreMarkRolledBack(v)

\* the calls of the Migrator
Next == DoRegister \/ DoMigrate \/ DoRollback \/ DoRollbackTo

Spec == Init /\ [][Next]_vars

\* the ledgers a store can hold: lists of versions without duplicates
\* (mark_applied never appends a version the list holds)
Ledgers ==
    { q \in UNION { [1..n -> Versions] : n \in 0..Cardinality(Versions) } :
        \A i, j \in 1..Len(q) : i # j => q[i] # q[j] }

\* Migrator(store): a Migrator constructed over an existing ledger, its
\* catalog still empty; the ledger may hold versions the catalog never gets
InitRestart ==
    /\ migrations = << >>
    /\ applied \in Ledgers
    /\ last = Call("init", None, 0, Batch(<< >>, << >>))
    /\ ThreadsInit
    /\ BuiltInit
    /\ HooksInit
    /\ ConcInit

SpecRestart == InitRestart /\ [][Next]_vars

\* Migrator with its catalog registered at startup and no callback yet
InitCatalog ==
    /\ migrations = [ v \in Versions |-> NewMigration ]
    /\ applied = << >>
    /\ last = Call("init", None, 0, Batch(<< >>, << >>))
    /\ ThreadsInit
    /\ BuiltInit
    /\ HooksInit
    /\ ConcInit

\* migrate() and rollback() called with their default arguments
DoMigrateDefault ==
    \E f \in SUBSET Runnable("up"),
       r \in SUBSET HandlersOf({"before_migrate", "after_migrate"}) : Migrate(None, f, r)
DoRollbackDefault ==
    \E f \in SUBSET Runnable("down"),
       r \in SUBSET HandlersOf({"before_rollback", "after_rollback"}) : Rollback(1, f, r)

\* batches with callbacks registered
NextHooks == DoAddHook \/ DoMigrateDefault \/ DoRollbackDefault

SpecHooks == InitCatalog /\ [][NextHooks]_vars

\* forward batches over a registered catalog, with re-registrations
NextForward == DoRegister \/ DoMigrate

SpecForward == InitCatalog /\ [][NextForward]_vars

\* the ledger called directly, one call at a time, beside registrations
NextLedger == DoRegister \/ DoStoreMarkApplied \/ DoStoreMarkRolledBack

SpecLedger == Init /\ [][NextLedger]_vars

\* the ledger called from several threads
NextStore == DoStoreCall \/ DoAcquire \/ DoTest \/ DoUpdate \/ DoRelease

SpecStore == Init /\ [][NextStore]_vars

\* Migration objects constructed directly and through MigrationBuilder
NextBuild == DoConstruct \/ DoBuilderNew \/ DoBuilderUp \/ DoBuilderDown

SpecBuild == Init /\ [][NextBuild]_vars

(* ---------------- migrate() and status() called concurrently ------------ *)

\* migrate() entered by thread t: pending() reads the ledger once and the
\* loop then walks that list (no callback is registered, every body succeeds)
ConcMigrateStart(t) ==
    /\ conc[t].op = "idle"
    /\ conc' = [ conc EXCEPT ![t] =
                    [ op |-> "migrate", pc |-> "run",
                      todo |-> pending(migrations, applied), snap |-> << >>,
                      summary |-> NoSummary ] ]
    /\ UNCHANGED << migrations, applied, last, tvars, built, hooks, execs >>

\* runner.run_up(migration): the forward body of the next version executes
ConcRun(t) ==
    /\ conc[t].op = "migrate"
    /\ conc[t].pc = "run"
    /\ conc[t].todo # << >>
    /\ run_up(Head(conc[t].todo), {}).success
    /\ execs' = Append(execs, [ thread |-> t, version |-> Head(conc[t].todo) ])
    /\ conc' = [ conc EXCEPT ![t].pc = "mark" ]
    /\ UNCHANGED << migrations, applied, last, tvars, built, hooks >>

\* store.mark_applied(version) under the lock, then the status assignments
ConcMark(t) ==
    /\ conc[t].op = "migrate"
    /\ conc[t].pc = "mark"
    /\ applied' = mark_applied(applied, Head(conc[t].todo))
    /\ migrations' = [ migrations EXCEPT ![Head(conc[t].todo)] =
                          [ status |-> "applied", applied_at |-> TRUE ] ]
    /\ conc' = [ conc EXCEPT ![t].pc = "run", ![t].todo = Tail(@) ]
    /\ UNCHANGED << last, tvars, built, hooks, execs >>

\* migrate() returns when its list is exhausted
ConcMigrateEnd(t) ==
    /\ conc[t].op = "migrate"
    /\ conc[t].pc = "run"
    /\ conc[t].todo = << >>
    /\ conc' = [ conc EXCEPT ![t] = Idle ]
    /\ UNCHANGED << migrations, applied, last, tvars, built, hooks, execs >>

\* status() entered by thread t: applied = self.store.get_applied()
ConcStatusStart(t) ==
    /\ conc[t].op = "idle"
    /\ conc' = [ conc EXCEPT ![t] =
                    [ op |-> "status", pc |-> "pending", todo |-> << >>,
                      snap |-> applied, summary |-> NoSummary ] ]
    /\ UNCHANGED << migrations, applied, last, tvars, built, hooks, execs >>

\* status(): pending = self.pending() reads the ledger again, and the
\* summary is returned
ConcStatusEnd(t) ==
    /\ conc[t].op = "status"
    /\ conc[t].pc = "pending"
    /\ LET p == pending(migrations, applied)
       IN  conc' = [ conc EXCEPT ![t] =
                       Returned([ returned |-> TRUE,
                                  applied |-> conc[t].snap, pending |-> p,
                                  applied_count |-> Len(conc[t].snap),
                                  pending_count |-> Len(p) ]) ]
    /\ UNCHANGED << migrations, applied, last, tvars, built, hooks, execs >>

DoConcMigrateStart == \E t \in Threads : ConcMigrateStart(t)
DoConcRun == \E t \in Threads : ConcRun(t)
DoConcMark == \E t \in Threads : ConcMark(t)
DoConcMigrateEnd == \E t \in Threads : ConcMigrateEnd(t)
DoConcStatusStart == \E t \in Threads : ConcStatusStart(t)
DoConcStatusEnd == \E t \in Threads : ConcStatusEnd(t)

\* one Migrator, its catalog registered at startup, called from the threads
NextConc ==
    \/ DoConcMigrateStart \/ DoConcRun \/ DoConcMark \/ DoConcMigrateEnd
    \/ DoConcStatusStart \/ DoConcStatusEnd

SpecConc == InitCatalog /\ [][NextConc]_vars

(* ------------------------ reading the last call ------------------------ *)

\* every result the call returned is a success
AllSuccess == \A i \in 1..Len(last.results) : last.results[i].success

\* the versions of the results, in the order returned
ResultVersions == [ i \in 1..Len(last.results) |-> last.results[i].version ]

\* the versions whose body the call executed in the given direction, in order
Ran(ev) ==
    LET runs == SelectSeq(last.trace, LAMBDA e : e.ev = ev)
    IN  [ i \in 1..Len(runs) |-> runs[i].version ]

\* pending() as it was when the call began (a call does not change the catalog keys)
Pending0 == pending(migrations, last.applied0)

StrictlyAscending(s) == \A i \in 1..(Len(s) - 1) : StrLess(s[i], s[i + 1])

StrictlyDescending(s) == \A i \in 1..(Len(s) - 1) : StrLess(s[i + 1], s[i])

IsPrefix(s, t) == Len(s) <= Len(t) /\ \A i \in 1..Len(s) : s[i] = t[i]

NoDuplicates(s) == \A i, j \in 1..Len(s) : i # j => s[i] # s[j]

\* the position in s of its last entry that is <= target, 0 when there is none
LastAtMost(s, target) ==
    IF \E i \in 1..Len(s) : StrLeq(s[i], target)
    THEN CHOOSE i \in 1..Len(s) :
             /\ StrLeq(s[i], target)
             /\ \A j \in (i + 1)..Len(s) : ~StrLeq(s[j], target)
    ELSE 0

(* ------------------------------- claims -------------------------------- *)

\* C1 as stated: after a migrate() with no target in which every result is
\* successful, pending() is empty and applied() is the whole catalog in
\* ascending version order.
C1_AsStated ==
    (last.op = "migrate" /\ last.target = None /\ AllSuccess) =>
        /\ pending(migrations, applied) = << >>
        /\ AppliedList(migrations, applied) = sorted(DOMAIN migrations)

\* C1 amended: after a migrate() with no target in which every result is
\* successful, pending() is empty and applied() returns every catalog
\* migration exactly once, in ledger order: the migrations applied before the
\* call in the order they had, then those this call applied in ascending
\* version order.
C1_MigrateAllApplied ==
    (last.op = "migrate" /\ last.target = None /\ AllSuccess) =>
        /\ pending(migrations, applied) = << >>
        /\ Range(AppliedList(migrations, applied)) = DOMAIN migrations
        /\ NoDuplicates(AppliedList(migrations, applied))
        /\ AppliedList(migrations, applied) =
               AppliedList(migrations, last.applied0) \o Pending0

\* C1 witness: a successful migrate() with no target that applied migrations
\* on top of a ledger that already held some, the catalog being complete
C1_Witness ==
    /\ last.op = "migrate" /\ last.target = None /\ AllSuccess
    /\ Len(last.results) >= 1
    /\ Len(last.applied0) >= 1
    /\ DOMAIN migrations = Versions

\* C2: when a forward body raises during migrate(), the results are a prefix
\* of pending(), all successes but the last, which is the failure; the
\* migrations before the failing one are in the ledger, the failing one and
\* the later pending ones are not; no later forward body ran; the call
\* returned (after_migrate was dispatched, nothing propagated).
C2_MigrateFailFast ==
    (last.op = "migrate" /\ ~AllSuccess) =>
        LET n == Len(last.results) IN
        /\ IsPrefix(ResultVersions, Pending0)
        /\ \A i \in 1..(n - 1) : last.results[i].success
        /\ ~last.results[n].success
        /\ \A i \in 1..(n - 1) : Pending0[i] \in Range(applied)
        /\ \A i \in n..Len(Pending0) : Pending0[i] \notin Range(applied)
        /\ Ran("run_up") = ResultVersions
        /\ last.trace[Len(last.trace)].ev = "after_migrate"

\* C2 witness: the second of three pending migrations failed
C2_Witness ==
    /\ last.op = "migrate" /\ ~AllSuccess
    /\ Len(last.results) = 2
    /\ Len(Pending0) = 3

\* C3 as stated: after a rollback_to(target) in which every backward execution
\* succeeds, no catalog version greater than target is in the ledger and
\* every version <= target applied before the call is still applied.
C3_AsStated ==
    (last.op = "rollback_to" /\ AllSuccess) =>
        /\ \A v \in DOMAIN migrations :
               StrLess(last.target, v) => v \notin Range(applied)
        /\ \A v \in Range(last.applied0) :
               StrLeq(v, last.target) => v \in Range(applied)

\* C3 amended: after a rollback_to(target) in which every backward execution
\* succeeds, the ledger is what it was up to and including the most recently
\* applied version <= target (empty when there is none): the versions applied
\* after that one are removed, every version <= target applied before the call
\* is still applied, and a version greater than target remains exactly when it
\* was applied before some version <= target.
C3_RollbackToSuffix ==
    (last.op = "rollback_to" /\ AllSuccess) =>
        LET k == LastAtMost(last.applied0, last.target) IN
        /\ applied = SubSeq(last.applied0, 1, k)
        /\ \A v \in Range(last.applied0) :
               StrLeq(v, last.target) => v \in Range(applied)
        /\ \A i \in 1..Len(last.applied0) :
               StrLess(last.target, last.applied0[i]) =>
                   (last.applied0[i] \in Range(applied) <=> i < k)

\* C3 witness: a rollback_to that rolled a version back and stopped at a
\* version <= target, leaving a greater version applied before it
C3_Witness ==
    /\ last.op = "rollback_to" /\ AllSuccess
    /\ Len(last.results) >= 1
    /\ \E v \in Range(applied) : StrLess(last.target, v)
    /\ \E v \in Range(applied) : StrLeq(v, last.target)

\* C4 as stated: the forward executions of one migrate() are in strictly
\* ascending version order, the backward executions of one rollback() in
\* strictly descending version order.
C4_AsStated ==
    /\ last.op = "migrate" => StrictlyAscending(Ran("run_up"))
    /\ last.op = "rollback" => StrictlyDescending(Ran("run_down"))

\* C4 amended: the forward executions of one migrate() are in strictly
\* ascending version order; the backward executions of one rollback() are in
\* reverse application order (the ledger read from its end, most recently
\* applied first), which is strictly descending version order when the ledger
\* was in ascending version order.
C4_ExecutionOrder ==
    /\ last.op = "migrate" => StrictlyAscending(Ran("run_up"))
    /\ last.op = "rollback" =>
           /\ IsPrefix(Ran("run_down"), Reverse(last.applied0))
           /\ StrictlyAscending(last.applied0) => StrictlyDescending(Ran("run_down"))

\* C4 witness: a rollback() that ran two backward bodies, not in descending
\* version order
C4_Witness ==
    /\ last.op = "rollback"
    /\ Len(Ran("run_down")) >= 2
    /\ ~StrictlyDescending(Ran("run_down"))

\* C5: with versions in the ledger that the catalog does not hold, a skipped
\* version consumes no step: rollback(steps), every backward body succeeding,
\* attempts exactly min(steps, number of applied versions in the catalog)
\* rollbacks.
C5_SkipConsumesNoStep ==
    (/\ last.op = "rollback" /\ AllSuccess
     /\ \E v \in Range(last.applied0) : v \notin DOMAIN migrations) =>
        Len(last.results) =
            Min(last.steps, Cardinality(Range(last.applied0) \cap DOMAIN migrations))

\* C6: rollback_to(target) is fail-fast: only the last result of the returned
\* sequence can be a failure.
C6_RollbackToFailFast ==
    last.op = "rollback_to" =>
        \A i \in 1..(Len(last.results) - 1) : last.results[i].success

\* C7: any two migrations, constructed directly or through MigrationBuilder,
\* have equal checksums when their forward and backward payloads are
\* identical, and different checksums when either payload differs (the hash
\* taken as injective). "Either payload differs" is read as the code's
\* concatenation allows at best: one payload differs and the other is the
\* same, so that the hashed contents differ.
C7_ChecksumFollowsPayload ==
    \A a, b \in Slots :
        (built[a].origin \in {"direct", "builder"} /\
         built[b].origin \in {"direct", "builder"}) =>
            /\ (built[a].up_sql = built[b].up_sql /\
                built[a].down_sql = built[b].down_sql)
                   => built[a].checksum = built[b].checksum
            /\ ((built[a].up_sql # built[b].up_sql) #
                (built[a].down_sql # built[b].down_sql))
                   => built[a].checksum # built[b].checksum

\* C8: under any interleaving of concurrent mark_applied and
\* mark_rolled_back calls, no update is lost and the list is not corrupted:
\* once the calls have returned, the ledger holds exactly the versions whose
\* last call was mark_applied, each exactly once.
C8_LedgerSerialized ==
    /\ NoDuplicates(applied)
    /\ (\A t \in Threads : pc[t] \in {"idle", "acquire"}) =>
           Range(applied) = { v \in Versions : lastMut[v] = "mark_applied" }

\* C8 witness: both kinds of call have returned, one thread waits for the
\* lock another holds, and the ledger holds a version
C8_Witness ==
    /\ \E v \in Versions : lastMut[v] = "mark_applied"
    /\ \E v \in Versions : lastMut[v] = "mark_rolled_back"
    /\ \E t, u \in Threads : pc[t] = "acquire" /\ pc[u] = "update"
    /\ applied # << >>

\* C9: migrate(target), all bodies succeeding, runs forward exactly the
\* pending versions <= target, ascending, and leaves every pending version
\* greater than target unexecuted and still pending.
C9_MigrateTarget ==
    (last.op = "migrate" /\ last.target # None /\ AllSuccess) =>
        /\ Ran("run_up") = SelectSeq(Pending0, LAMBDA v : StrLeq(v, last.target))
        /\ \A v \in Range(Pending0) :
               StrLess(last.target, v) =>
                   v \notin Range(applied) /\ v \in Range(pending(migrations, applied))

\* C10: with every applied version in the catalog and every backward body
\* succeeding, rollback(steps) runs backward exactly the min(steps, n) most
\* recently applied of the n versions in the ledger, most recent first,
\* removes exactly those and leaves the others applied in their order.
C10_RollbackSteps ==
    (/\ last.op = "rollback" /\ AllSuccess
     /\ Range(last.applied0) \subseteq DOMAIN migrations) =>
        LET n == Len(last.applied0)
            k == Min(last.steps, n)
        IN  /\ Ran("run_down") = SubSeq(Reverse(last.applied0), 1, k)
            /\ ResultVersions = Ran("run_down")
            /\ applied = SubSeq(last.applied0, 1, n - k)

\* C10 witness: rollback(2) over a ledger of three catalog versions
C10_Witness ==
    /\ last.op = "rollback" /\ AllSuccess
    /\ Range(last.applied0) \subseteq DOMAIN migrations
    /\ last.steps = 2
    /\ Len(last.applied0) = 3
    /\ Len(applied) = 1

\* C11: pending() returns exactly the catalog migrations whose version is
\* not in the ledger, ascending by version string whatever the order of
\* registration; with an empty ledger it returns the whole catalog.
C11_PendingSorted ==
    LET p == pending(migrations, applied) IN
    /\ Range(p) = DOMAIN migrations \ Range(applied)
    /\ StrictlyAscending(p)
    /\ applied = << >> => Range(p) = DOMAIN migrations

\* C11 witness: a version was registered below one that is applied, part of
\* the catalog is in the ledger and two migrations are pending
C11_Witness ==
    /\ last.op = "register"
    /\ \E v \in DOMAIN migrations :
           StrLess(last.target, v) /\ migrations[v].status = "applied"
    /\ Len(pending(migrations, applied)) = 2
    /\ applied # << >>

\* C13: for a version v not in the ledger, is_applied(v) is false before
\* mark_applied(v) and true right after; a second mark_applied(v) leaves the
\* ledger as the first left it; mark_rolled_back(v) of an absent version
\* leaves the ledger unchanged.
C13_LedgerIdempotent ==
    /\ (last.op = "mark_applied" /\ last.target \notin Range(last.applied0)) =>
           /\ ~is_applied(last.applied0, last.target)
           /\ is_applied(applied, last.target)
    /\ (last.op = "mark_applied" /\ last.target \in Range(last.applied0)) =>
           applied = last.applied0
    /\ (last.op = "mark_rolled_back" /\ last.target \notin Range(last.applied0)) =>
           applied = last.applied0
    /\ \A v \in Versions :
           mark_applied(mark_applied(applied, v), v) = mark_applied(applied, v)

\* C13 witness: mark_applied of a version the ledger already held
C13_Witness ==
    /\ last.op = "mark_applied"
    /\ last.target \in Range(last.applied0)
    /\ Len(applied) >= 2

\* C14: rollback(steps) is fail-fast: when a backward body raises, the failing
\* version stays in the ledger with status failed, no older applied version
\* is attempted in the call, the versions the call rolled back stay rolled
\* back, and the failure is the last of the results.
C14_RollbackFailFast ==
    (last.op = "rollback" /\ ~AllSuccess) =>
        LET n == Len(last.results)
            bad == last.results[n].version
        IN  /\ \A i \in 1..(n - 1) : last.results[i].success
            /\ ~last.results[n].success
            /\ bad \in Range(applied)
            /\ migrations[bad].status = "failed"
            /\ \A i \in 1..(n - 1) :
                   /\ last.results[i].version \notin Range(applied)
                   /\ migrations[last.results[i].version].status = "rolled_back"
            /\ Ran("run_down") = ResultVersions
            /\ \A i, j \in 1..Len(last.applied0) :
                   (last.applied0[j] = bad /\ i < j) =>
                       /\ last.applied0[i] \notin Range(ResultVersions)
                       /\ last.applied0[i] \in Range(applied)

\* C14 witness: the second of three rollbacks failed, an older version applied
C14_Witness ==
    /\ last.op = "rollback" /\ ~AllSuccess
    /\ Len(last.results) = 2
    /\ Len(last.applied0) = 3
    /\ last.steps = 3

\* C15: every backward execution of rollback(steps) or rollback_to(target)
\* moves the status of its migration: to rolled_back when it succeeds, to
\* failed when it fails; a migration a successful rollback removed from the
\* ledger does not keep the status applied.
C15_BackwardStatus ==
    (last.op \in {"rollback", "rollback_to"}) =>
        \A i \in 1..Len(last.results) :
            migrations[last.results[i].version].status =
                IF last.results[i].success THEN "rolled_back" ELSE "failed"

\* C17: a migration whose forward execution failed is not blocked by its
\* status: it is in pending(); the next migrate() runs no higher version
\* before it, reattempts it when the target admits it and everything pending
\* below it succeeds, and when its body then succeeds it is in the ledger
\* with status applied.
C17_FailedIsRetried ==
    [][ \A v \in DOMAIN migrations :
          (migrations[v].status = "failed" /\ v \notin Range(applied)) =>
              /\ v \in Range(pending(migrations, applied))
              /\ last'.op = "migrate" =>
                    LET ups == Ran("run_up")'
                        res == last'.results
                    IN  /\ \A i \in 1..Len(ups) :
                               StrLess(v, ups[i]) => \E j \in 1..(i - 1) : ups[j] = v
                        /\ ((~Truthy(last'.target) \/ StrLeq(v, last'.target)) /\
                            (\A i \in 1..Len(res) :
                                 StrLess(res[i].version, v) => res[i].success))
                               => v \in Range(ups)
                        /\ (\E i \in 1..Len(res) : res[i].version = v /\ res[i].success)
                               => /\ v \in Range(applied')
                                  /\ migrations'[v].status = "applied" ]_vars

\* C17 witness: a migrate() has just failed on a version that stays pending
\* with status failed, below another pending version
C17_Witness ==
    /\ last.op = "migrate" /\ ~AllSuccess
    /\ LET v == last.results[Len(last.results)].version IN
       /\ migrations[v].status = "failed"
       /\ v \in Range(pending(migrations, applied))
       /\ \E w \in Range(pending(migrations, applied)) : StrLess(v, w)

\* the versions of the successful results, in the order returned
Successes(results) ==
    LET ok == SelectSeq(results, LAMBDA r : r.success)
    IN  [ i \in 1..Len(ok) |-> ok[i].version ]

\* C20: round trip: when a migrate() returned k successful results, a
\* rollback(k) that follows it at once, every backward body succeeding, rolls
\* back exactly those k versions (most recent first) and leaves the ledger
\* with the contents and the order it had before the migrate().
C20_RoundTrip ==
    [][ (/\ last.op = "migrate"
         /\ last'.op = "rollback"
         /\ last'.steps = Len(Successes(last.results))
         /\ AllSuccess') =>
            /\ ResultVersions' = Reverse(Successes(last.results))
            /\ applied' = last.applied0
            /\ \A v \in Range(Successes(last.results)) :
                   migrations'[v].status = "rolled_back" ]_vars

\* C20 witness: a rollback(2) has undone two versions that stood at the end
\* of the ledger in ascending order, as a migrate() appends them, and left
\* an older entry
C20_Witness ==
    /\ last.op = "rollback" /\ AllSuccess
    /\ last.steps = 2 /\ Len(last.results) = 2
    /\ StrLess(last.results[2].version, last.results[1].version)
    /\ applied # << >>
    /\ applied \o Reverse(ResultVersions) = last.applied0

(* ------------------------------ C12, C16 ------------------------------- *)

\* the positions of the trace of the last call that hold the given event
At(ev) == { i \in 1..Len(last.trace) : last.trace[i].ev = ev }

\* a callback raised during the last call
Faulted == \E i \in At("handler") : last.trace[i].raised

\* every dispatch of the last call is followed by the calls of all the
\* callbacks registered for its event, in registration order
CallbacksInOrder ==
    \A e \in Events : \A i \in At(e) : \A k \in 1..Len(hooks[e]) :
        /\ i + k <= Len(last.trace)
        /\ last.trace[i + k].ev = "handler"
        /\ last.trace[i + k].event = e
        /\ last.trace[i + k].handler = hooks[e][k]

\* the versions whose body failed, among the given results
FailedIn(results) ==
    { results[i].version : i \in { j \in 1..Len(results) : ~results[j].success } }

\* C12: when a callback raises during migrate() or rollback(), all the
\* callbacks of each dispatched event are still called in registration order,
\* and the call executes, returns and records exactly what the same batch
\* does with no callback involved: same results, same statuses, same ledger.
C12_HookFaultCaught ==
    [][ Faulted' =>
          LET f == FailedIn(last'.results)
              plain == IF last'.op = "migrate"
                       THEN MigrateLoop(Batch(migrations, applied),
                                        pending(migrations, applied), last'.target, f)
                       ELSE RollbackLoop(Batch(migrations, applied),
                                         Reverse(applied), 0, last'.steps, f)
          IN  /\ CallbacksInOrder'
              /\ last'.results = plain.results
              /\ migrations' = plain.migrations
              /\ applied' = plain.applied ]_vars

\* migrate(): the first before_migrate callback raised, the second one was
\* still called, and the batch applied a migration
C12_Witness ==
    /\ last.op = "migrate"
    /\ \E i \in At("handler") :
          /\ last.trace[i].event = "before_migrate"
          /\ last.trace[i].raised
          /\ i + 1 \in At("handler")
          /\ last.trace[i + 1].event = "before_migrate"
    /\ \E i \in 1..Len(last.results) : last.results[i].success
    /\ applied # << >>

\* C16: every migrate() dispatches before_migrate exactly once, before every
\* forward execution, and after_migrate exactly once, after every forward
\* execution, with exactly the results the call returns; rollback() does the
\* same with before_rollback, the backward executions and after_rollback.
C16_HooksAroundBatch ==
    last.op \in { "migrate", "rollback" } =>
        LET before == IF last.op = "migrate" THEN "before_migrate" ELSE "before_rollback"
            after == IF last.op = "migrate" THEN "after_migrate" ELSE "after_rollback"
            run == IF last.op = "migrate" THEN "run_up" ELSE "run_down"
        IN  /\ Cardinality(At(before)) = 1
            /\ Cardinality(At(after)) = 1
            /\ \A e \in Events \ { before, after } : At(e) = {}
            /\ \A i \in At(before), j \in At(run) \cup At(after) : i < j
            /\ \A j \in At(run), k \in At(after) : j < k
            /\ \A k \in At(after) : last.trace[k].data = last.results
            /\ Len(last.results) = Cardinality(At(run))

\* migrate() stopped early on a failure after one success, and after_migrate
\* was dispatched to a registered callback with the two results
C16_Witness ==
    /\ last.op = "migrate"
    /\ Len(last.results) = 2
    /\ ~last.results[2].success
    /\ hooks["after_migrate"] # << >>
    /\ \E k \in At("after_migrate") : last.trace[k].data = last.results


(* ------------------------------ C18, C19 ------------------------------- *)

\* C18: every summary returned by status(), also one computed while a
\* migrate() runs in another thread, lists every catalog version in exactly
\* one of applied and pending, and its two counts add up to the catalog size.
C18_StatusPartition ==
    \A t \in Threads :
        conc[t].summary.returned =>
            LET s == conc[t].summary
            IN  /\ \A v \in DOMAIN migrations :
                      (v \in Range(s.applied)) # (v \in Range(s.pending))
                /\ s.applied_count + s.pending_count = Cardinality(DOMAIN migrations)

\* the executions of the forward body of version v by the given threads
ExecsOf(v, threads) ==
    { i \in 1..Len(execs) : execs[i].version = v /\ execs[i].thread \in threads }

\* C19 as stated: the forward body of each version is executed at most once
\* across the concurrent migrate() calls.
C19_AsStated == \A v \in Versions : Cardinality(ExecsOf(v, Threads)) <= 1

\* C19: when threads call migrate() concurrently, each thread executes the
\* forward body of each version at most once, and each version is recorded
\* in the ledger at most once, after a thread has executed its body.
C19_RecordedOnce ==
    /\ \A v \in Versions, t \in Threads : Cardinality(ExecsOf(v, {t})) <= 1
    /\ NoDuplicates(applied)
    /\ \A v \in Range(applied) : ExecsOf(v, Threads) # {}

\* two threads have each executed the body of the same version, and the
\* ledger holds that version
C19_Witness ==
    \E v \in Range(applied) : \E i, j \in ExecsOf(v, Threads) :
        execs[i].thread # execs[j].thread


\* the catalog and the ledger hold versions only
TypeOK ==
    /\ DOMAIN migrations \subseteq Versions
    /\ Range(applied) \subseteq Versions
====
